---- MODULE Spec2Model ----
(***************************************************************************)
(* mongoose-cursor-paginate: the `paginate` static (index.js).              *)
(*                                                                         *)
(* A call of paginate has two steps: the synchronous part (cursor decode,  *)
(* defaults, clamping, projection, range filter, sort, find().sort()       *)
(* .limit().lean()) and the `.then` callback that assembles the response.  *)
(* The collection is unchanged while a chain of calls runs.                *)
(*                                                                         *)
(* JavaScript `undefined` is the empty sequence, a present value v is <<v>>.*)
(* Documents are functions from field names to integers; _id values are    *)
(* ObjectIds (never falsy), modelled as the positive integers 1..MaxId.    *)
(***************************************************************************)
EXTENDS Integers, Sequences, FiniteSets, TLC

\* ------------------------------------------------------------------ bounds
MaxId   == 3    \* documents in the collection (_id 1..MaxId)
MaxDate == 2    \* `date` values 0..MaxDate-1, so duplicates occur

\* ------------------------------------------------------- config (./config)
DEFAULT_LIMIT == 2
MAX_LIMIT == 3

\* ------------------------------------------------------------ JS values
Undefined == <<>>
Some(v) == <<v>>
IsSet(x) == x # Undefined
Val(x) == x[1]

Fields == {"_id", "date", "title"}

\* A cursor value: the single paginatedField value, or the array
\* [paginatedField value, _id].
Single(v) == [shape |-> "single", v |-> v, id |-> 0]
Pair(v, id) == [shape |-> "pair", v |-> v, id |-> id]

\* JavaScript truthiness of a decoded cursor value: an array is always
\* truthy, a number is truthy unless it is 0.
Truthy(c) == c.shape = "pair" \/ c.v # 0

\* ------------------------------------------- utils/bsonUrlEncoding (codec)
\* encode wraps the value in an opaque token; decode unwraps a token that
\* encode produced and throws on anything else.
encode(c) == [enc |-> "bson-url", payload |-> c]
Garbage == [enc |-> "garbage", payload |-> Single(0)]
CanDecode(tok) == tok.enc = "bson-url"
decode(tok) == tok.payload

\* ------------------------------------------------------------ variables
VARIABLES
  db,       \* the collection: a set of documents
  params,   \* the params object of the current call, as the caller built it
  pc,       \* "idle" | "querying" | "resolved" | "threw"
  pending,  \* the query handed to find().sort().limit(), Undefined if none
  resp,     \* the response of the last resolved call, Undefined if none
  last,     \* the last resolved call: [kind, ids, results], ids the _id of
            \* the returned records; Undefined before the first
  pageN,    \* the `last` of the call whose `next` cursor the last call
            \* followed, kept while the chain is that call, the `next` call
            \* and the `previous` call after it; the `last` of the call
            \* before, when the last call reused its params object;
            \* Undefined otherwise
  walk,     \* the _id of the records returned so far by a traversal that
            \* started without cursor and only followed `next`; Undefined
            \* once the chain left that path
  finds     \* number of find() calls issued by the current call

vars == <<db, params, pc, pending, resp, last, pageN, walk, finds>>

\* ------------------------------------------------------------ the store
Doc(i, d, t) == [f \in Fields |-> IF f = "_id" THEN i ELSE IF f = "date" THEN d ELSE t]

\* The caller's query: {} or {title: t}.
MatchAll == Undefined
Matches(doc, query) == IsSet(query) => doc["title"] = Val(query)

\* $gt / $lt
Compare(op, a, b) == IF op = "$gt" THEN a > b ELSE a < b

\* The range filter pushed on `queries` (index.js 77-123).
NoRange == [kind |-> "none", field |-> "_id", op |-> "$gt", v |-> 0, id |-> 0]
InRange(doc, range) ==
  CASE range.kind = "none" -> TRUE
    [] range.kind = "or" ->
         \/ Compare(range.op, doc[range.field], range.v)
         \/ /\ doc[range.field] = range.v
            /\ Compare(range.op, doc["_id"], range.id)
    [] range.kind = "simple" -> Compare(range.op, doc[range.field], range.v)

\* Sort order of the store: by the keys of `sort` in turn, all with the
\* direction sortDir.
Before(a, b, keys, dir) ==
  LET lt(x, y) == IF dir = 1 THEN x < y ELSE x > y
  IN  \/ lt(a[keys[1]], b[keys[1]])
      \/ /\ Len(keys) = 2
         /\ a[keys[1]] = b[keys[1]]
         /\ lt(a[keys[2]], b[keys[2]])

RECURSIVE SortDocs(_, _, _)
SortDocs(S, keys, dir) ==
  IF S = {} THEN <<>>
  ELSE LET first == CHOOSE a \in S : \A b \in S \ {a} : Before(a, b, keys, dir)
       IN  <<first>> \o SortDocs(S \ {first}, keys, dir)

Take(s, n) == IF Len(s) <= n THEN s ELSE SubSeq(s, 1, n)

\* Mongo projection of one document. No projection, or {}: all fields. A
\* projection naming a field other than _id with 1 is an inclusion: those
\* fields, and _id unless _id is 0. One naming such fields with 0 is an
\* exclusion. {_id: 1} alone keeps only _id, {_id: 0} alone drops only _id.
Project(doc, fields) ==
  IF ~IsSet(fields) THEN doc
  ELSE LET p == Val(fields)
           other == DOMAIN p \ {"_id"}
           idOn == "_id" \notin DOMAIN p \/ p["_id"] = 1
           keep == IF \E f \in other : p[f] = 1
                     THEN {f \in other : p[f] = 1} \cup (IF idOn THEN {"_id"} ELSE {})
                   ELSE IF other # {} \/ "_id" \notin DOMAIN p \/ p["_id"] = 0
                     THEN (Fields \ other) \ (IF idOn THEN {} ELSE {"_id"})
                   ELSE {"_id"}
       IN  [f \in keep |-> doc[f]]

\* this.find({$and: queries}, fields).sort(sort).limit(n).lean(true)
Find(coll, q) ==
  LET hit == {doc \in coll : Matches(doc, q.query) /\ InRange(doc, q.range)}
      sorted == Take(SortDocs(hit, q.sortKeys, q.sortDir), q.limit)
  IN  [i \in 1..Len(sorted) |-> Project(sorted[i], q.fields)]

\* ------------------------------------------------------------- paginate
DecodeThrowsNextOnly(p) == IsSet(p.next) /\ ~CanDecode(Val(p.next))

\* index.js 30-31: a supplied cursor is decoded first; decode throws on a
\* token it cannot read.
DecodeThrows(p) ==
  \/ IsSet(p.previous) /\ ~CanDecode(Val(p.previous))
  \/ IsSet(p.next) /\ ~CanDecode(Val(p.next))

DecodeCursor(c) == IF IsSet(c) THEN Some(decode(Val(c))) ELSE Undefined

ClampLimitNoFloor(limit) == IF limit > MAX_LIMIT THEN MAX_LIMIT ELSE limit

\* index.js 41-42
ClampLimit(limit) ==
  IF limit < 1 THEN 1 ELSE IF limit > MAX_LIMIT THEN MAX_LIMIT ELSE limit

\* index.js 30-42: params after the in-place decode, _.defaults and clamping.
\* sortAscending is not among the defaults. limit and paginatedField are
\* left unwrapped.
Normalize(p) ==
  [query          |-> p.query,
   limit          |-> ClampLimit(IF IsSet(p.limit) THEN Val(p.limit) ELSE DEFAULT_LIMIT),
   paginatedField |-> IF IsSet(p.paginatedField) THEN Val(p.paginatedField) ELSE "_id",
   fields         |-> p.fields,
   next           |-> DecodeCursor(p.next),
   previous       |-> DecodeCursor(p.previous),
   sortAscending  |-> p.sortAscending]

\* `if (params.next)`, `!!params.previous` on a decoded cursor
CursorGiven(c) == IsSet(c) /\ Truthy(Val(c))

\* index.js 47
shouldSecondarySortOnId(n) == n.paginatedField # "_id"

\* index.js 56-72: the names pushed on fieldsToBeRemoveInResponse
fieldsToBeRemoveInResponse(n) ==
  IF ~IsSet(n.fields) THEN {}
  ELSE LET f == Val(n.fields)
       IN  (IF "_id" \in DOMAIN f /\ f["_id"] = 0 THEN {"_id"} ELSE {})
           \cup (IF n.paginatedField # "_id"
                    /\ (n.paginatedField \notin DOMAIN f \/ f[n.paginatedField] = 0)
                 THEN {n.paginatedField} ELSE {})

\* index.js 63-71: the projection handed to find: _id forced to 1, the
\* paginatedField set to 1 when it was not requested.
fields(n) ==
  IF ~IsSet(n.fields) THEN Undefined
  ELSE LET f == Val(n.fields)
           dom == DOMAIN f \cup {"_id", n.paginatedField}
       IN  Some([k \in dom |->
                  IF k = "_id" THEN 1
                  ELSE IF k = n.paginatedField /\ (k \notin DOMAIN f \/ f[k] = 0) THEN 1
                  ELSE f[k]])

SortAscendingSetDefaultTrue(n) == ~IsSet(n.sortAscending) \/ Val(n.sortAscending)

\* index.js 74: JavaScript truthiness of sortAscending (undefined is falsy)
SortAscendingSet(n) == IsSet(n.sortAscending) /\ Val(n.sortAscending)
sortAsc(n) ==
  \/ ~SortAscendingSet(n) /\ CursorGiven(n.previous)
  \/ SortAscendingSet(n) /\ ~CursorGiven(n.previous)

\* index.js 75
comparisonOp(n) == IF sortAsc(n) THEN "$gt" ELSE "$lt"

RangeOfFieldOnly(n, c) ==
  [kind |-> "simple", field |-> n.paginatedField, op |-> comparisonOp(n),
   v |-> c.v, id |-> 0]

\* index.js 77-123
RangeOf(n, c) ==
  IF shouldSecondarySortOnId(n)
  THEN [kind |-> "or", field |-> n.paginatedField, op |-> comparisonOp(n),
        v |-> c.v, id |-> c.id]
  ELSE [kind |-> "simple", field |-> n.paginatedField, op |-> comparisonOp(n),
        v |-> c.v, id |-> 0]

RangeFilterPreviousFirst(n) ==
  IF CursorGiven(n.previous) THEN RangeOf(n, Val(n.previous))
  ELSE IF CursorGiven(n.next) THEN RangeOf(n, Val(n.next))
  ELSE NoRange

RangeFilter(n) ==
  IF CursorGiven(n.next) THEN RangeOf(n, Val(n.next))
  ELSE IF CursorGiven(n.previous) THEN RangeOf(n, Val(n.previous))
  ELSE NoRange

\* index.js 125-136
sortDir(n) == IF sortAsc(n) THEN 1 ELSE -1
sort(n) ==
  IF shouldSecondarySortOnId(n) THEN <<n.paginatedField, "_id">>
  ELSE <<n.paginatedField>>

\* index.js 139-142: the query issued to the store
BuildQuery(n) ==
  [query    |-> n.query,
   range    |-> RangeFilter(n),
   fields   |-> fields(n),
   sortKeys |-> sort(n),
   sortDir  |-> sortDir(n),
   limit    |-> n.limit + 1]

CursorOfFieldOnly(n, doc) == encode(Single(doc[n.paginatedField]))

\* index.js 162-177: the cursor of one record
CursorOf(n, doc) ==
  IF shouldSecondarySortOnId(n)
  THEN encode(Pair(doc[n.paginatedField], doc["_id"]))
  ELSE encode(Single(doc[n.paginatedField]))

Reverse(s) == [i \in 1..Len(s) |-> s[Len(s) + 1 - i]]

\* _.omit(result, fieldsToBeRemoveInResponse)
Omit(doc, names) == [f \in (DOMAIN doc) \ names |-> doc[f]]

PoppedKeepsExtra(n, found) == found

\* index.js 144-146
hasMore(n, found) == Len(found) > n.limit
Popped(n, found) == IF hasMore(n, found) THEN SubSeq(found, 1, Len(found) - 1) ELSE found

\* index.js 148-149
hasPrevious(n, found) ==
  CursorGiven(n.next) \/ (CursorGiven(n.previous) /\ hasMore(n, found))
hasNext(n, found) == CursorGiven(n.previous) \/ hasMore(n, found)

OrderedNoReverse(n, found) == Popped(n, found)

\* index.js 152
Ordered(n, found) ==
  IF CursorGiven(n.previous) THEN Reverse(Popped(n, found)) ELSE Popped(n, found)

\* index.js 143-184: the `.then` callback
Assemble(n, found) ==
  LET results == Ordered(n, found)
      remove == fieldsToBeRemoveInResponse(n)
  IN  [results     |-> [i \in 1..Len(results) |-> Omit(results[i], remove)],
       previous    |-> IF results # <<>> THEN Some(CursorOf(n, results[1])) ELSE Undefined,
       hasPrevious |-> hasPrevious(n, found),
       next        |-> IF results # <<>> THEN Some(CursorOf(n, results[Len(results)]))
                       ELSE Undefined,
       hasNext     |-> hasNext(n, found)]

\* The whole of a call that does not throw, on collection coll.
Paginate(coll, p) ==
  LET n == Normalize(p) IN Assemble(n, Find(coll, BuildQuery(n)))

\* index.js 30-42, 63-68: the caller's params object once paginate(p) has
\* run. _.defaults and the clamping write query, limit and paginatedField
\* into the object that was passed, and _.extend and the assignment of 67
\* write _id: 1 and paginatedField: 1 into the caller's `fields` object.
\* A defaulted query {} stays Undefined (MatchAll). Used on calls without
\* cursor, whose next and previous are not assigned.
Mutated(p) ==
  LET n == Normalize(p)
  IN  [query          |-> p.query,
       limit          |-> Some(n.limit),
       paginatedField |-> Some(n.paginatedField),
       fields         |-> fields(n),
       next           |-> p.next,
       previous       |-> p.previous,
       sortAscending  |-> p.sortAscending]

\* ------------------------------------------------------------ the inputs
Dates == 0..(MaxDate - 1)
\* The collection holds the documents 1..MaxId with any dates; the title is
\* 1 for the odd _id and 0 for the even ones, so that {title: 1} matches
\* every other document.
TitleOf(i) == i % 2
Stores == {{Doc(i, d[i], TitleOf(i)) : i \in 1..MaxId} : d \in [1..MaxId -> Dates]}

Queries == {MatchAll, Some(1)}
Limits == {Undefined} \cup {Some(l) : l \in {-1, 0, DEFAULT_LIMIT, MAX_LIMIT + 1}}
PaginatedFields == {Undefined, Some("date")}
SortAscendings == {Undefined, Some(TRUE), Some(FALSE)}
Projections ==
  {Undefined,
   Some([f \in {"date", "title", "_id"} |-> IF f = "_id" THEN 0 ELSE 1]),
   Some([f \in {"title"} |-> 1]),
   Some([f \in {"_id"} |-> 0])}

NoParams ==
  [query |-> Undefined, limit |-> Undefined, paginatedField |-> Undefined,
   fields |-> Undefined, next |-> Undefined, previous |-> Undefined,
   sortAscending |-> Undefined]

FirstParams ==
  [query : Queries, limit : Limits, paginatedField : PaginatedFields,
   fields : Projections, next : {Undefined}, previous : {Undefined},
   sortAscending : SortAscendings]

\* ------------------------------------------------------------ the actions
Init ==
  /\ db \in Stores
  /\ params = NoParams
  /\ pc = "idle"
  /\ pending = Undefined
  /\ resp = Undefined
  /\ last = Undefined
  /\ pageN = Undefined
  /\ walk = Undefined
  /\ finds = 0

\* index.js 29-142: the synchronous part of paginate(p). The decode comes
\* first and throws before anything else is done.
Call(p, kind) ==
  /\ pc # "querying"
  /\ params' = p
  /\ IF DecodeThrows(p)
     THEN /\ pc' = "threw"
          /\ pending' = Undefined
          /\ finds' = 0
     ELSE /\ pc' = "querying"
          /\ pending' = Some([kind |-> kind, n |-> Normalize(p),
                               comparisonOp |-> comparisonOp(Normalize(p)),
                               q |-> BuildQuery(Normalize(p))])
          /\ finds' = 1
  /\ UNCHANGED <<db, resp, last, walk>>

\* A call without cursor: the first call of a chain, the caller holds no
\* response yet.
PaginateFirst ==
  /\ pc = "idle"
  /\ \E p \in FirstParams : Call(p, "first")
  /\ pageN' = Undefined

\* A call with the `next` cursor of the last response, other params the same.
PaginateNext ==
  /\ IsSet(resp) /\ IsSet(Val(resp).next)
  /\ Call([params EXCEPT !.next = Val(resp).next, !.previous = Undefined], "next")
  /\ pageN' = last

\* A call with the `previous` cursor of the last response.
PaginatePrevious ==
  /\ IsSet(resp) /\ IsSet(Val(resp).previous)
  /\ Call([params EXCEPT !.previous = Val(resp).previous, !.next = Undefined], "previous")
  /\ pageN' = IF Val(last).kind = "next" THEN pageN ELSE Undefined

\* A call with both cursors supplied: `next` is the last response's next,
\* `previous` either of its cursors.
PaginateBoth ==
  /\ IsSet(resp) /\ IsSet(Val(resp).next)
  /\ \E pv \in {Val(resp).next, Val(resp).previous} :
       Call([params EXCEPT !.next = Val(resp).next, !.previous = pv], "both")
  /\ pageN' = Undefined

\* A call with a token that bsonUrlEncoding.decode cannot read, as `next`,
\* as `previous` or as both.
PaginateBadCursor ==
  /\ pc = "idle"
  /\ \E p \in FirstParams, which \in (SUBSET {"next", "previous"}) \ {{}} :
       Call([p EXCEPT !.next = IF "next" \in which THEN Some(Garbage) ELSE Undefined,
                     !.previous = IF "previous" \in which THEN Some(Garbage) ELSE Undefined],
            "bad")
  /\ pageN' = Undefined

\* The caller passes the params object of the resolved call a second time:
\* the same object, as paginate left it. Only calls without cursor are
\* repeated.
PaginateReuse ==
  /\ pc = "resolved"
  /\ ~IsSet(params.next) /\ ~IsSet(params.previous)
  /\ Call(Mutated(params), "reuse")
  /\ pageN' = last

\* index.js 143-185: the `.then` callback on the documents the store found.
Then ==
  /\ pc = "querying"
  /\ LET c == Val(pending)
         found == Find(db, c.q)
         r == Assemble(c.n, found)
         kept == Ordered(c.n, found)
         ids == [i \in 1..Len(kept) |-> kept[i]["_id"]]
     IN  /\ resp' = Some(r)
         /\ last' = Some([kind |-> c.kind, ids |-> ids, results |-> r.results])
         /\ walk' = IF c.kind = "first" THEN Some(ids)
                    ELSE IF c.kind = "next" /\ IsSet(walk) /\ Len(Val(walk)) <= MaxId
                      THEN Some(Val(walk) \o ids)
                    ELSE Undefined
  /\ pc' = "resolved"
  /\ UNCHANGED <<db, params, pending, pageN, finds>>

Next ==
  \/ PaginateFirst
  \/ PaginateNext
  \/ PaginatePrevious
  \/ PaginateBoth
  \/ PaginateBadCursor
  \/ Then

Spec == Init /\ [][Next]_vars

\* Callers that build one params object and pass it to call after call.
NextReuse ==
  \/ PaginateFirst
  \/ PaginateReuse
  \/ Then

SpecReuse == Init /\ [][NextReuse]_vars

\* ================================================================ claims
\* What the caller asked for, read off the params as the caller wrote them.
AskedField == IF IsSet(params.paginatedField) THEN Val(params.paginatedField) ELSE "_id"
AskedAscending == IsSet(params.sortAscending) /\ Val(params.sortAscending)
AskedLimit ==
  IF ~IsSet(params.limit) THEN DEFAULT_LIMIT
  ELSE IF Val(params.limit) <= 0 THEN 1
  ELSE IF Val(params.limit) >= MAX_LIMIT THEN MAX_LIMIT
  ELSE Val(params.limit)
Matching == {d \in db : ~IsSet(params.query) \/ d["title"] = Val(params.query)}
DocOf(id) == CHOOSE d \in db : d["_id"] = id

\* a comes before b in the order the caller asked for: by paginatedField,
\* ties by _id, ascending or descending.
KeyLess(a, b) ==
  \/ a[AskedField] < b[AskedField]
  \/ a[AskedField] = b[AskedField] /\ a["_id"] < b["_id"]
ComesBefore(a, b) == IF AskedAscending THEN KeyLess(a, b) ELSE KeyLess(b, a)

Resolved == pc = "resolved"
Kind == Val(last).kind
Ids == Val(last).ids

\* C1: forward/backward symmetry. When a call followed page N's `next`
\* cursor and the call after it followed that page's `previous` cursor, it
\* returns the records of page N, in the same order.
ForwardBackwardSymmetry ==
  (Resolved /\ Kind = "previous" /\ IsSet(pageN)) =>
    /\ Ids = Val(pageN).ids
    /\ Val(resp).results = Val(pageN).results

SymmetryWitness ==
  /\ Resolved /\ Kind = "previous" /\ IsSet(pageN)
  /\ Val(pageN).kind = "previous"
  /\ Len(Ids) >= 2
  /\ AskedField = "date"

\* C2: with paginatedField = date, a traversal that starts without cursor
\* and follows `next` returns the matching records one after the other in
\* the order (date, _id) of the scan direction, none twice, and has
\* returned all of them when hasNext is false.
Walked == Val(walk)
TraversalVisitsAllOnce ==
  (IsSet(walk) /\ AskedField = "date") =>
    /\ \A i \in 1..Len(Walked) : DocOf(Walked[i]) \in Matching
    /\ \A i \in 1..(Len(Walked) - 1) : ComesBefore(DocOf(Walked[i]), DocOf(Walked[i + 1]))
    /\ (Resolved /\ ~Val(resp).hasNext) =>
         {Walked[i] : i \in 1..Len(Walked)} = {d["_id"] : d \in Matching}

TraversalWitness ==
  /\ IsSet(walk) /\ AskedField = "date" /\ Resolved /\ ~Val(resp).hasNext
  /\ Kind = "next" /\ AskedLimit = 1
  /\ Len(Walked) = MaxId
  /\ \A i \in 1..Len(Walked) : DocOf(Walked[i])["date"] = 0

\* C4: a resolved call returns at most `limit` records, the limit being
\* the supplied one clamped to [1, MAX_LIMIT] or the default.
ResultsWithinLimit == Resolved => Len(Val(resp).results) <= AskedLimit

WithinLimitWitness ==
  /\ Resolved /\ Kind = "previous" /\ Val(resp).hasPrevious
  /\ Len(Val(resp).results) = AskedLimit

\* C5: the effective limit is the supplied limit clamped to [1, MAX_LIMIT],
\* DEFAULT_LIMIT when omitted, and the store is asked for one more record.
LimitClamped ==
  IsSet(pending) =>
    /\ Val(pending).n.limit \in 1..MAX_LIMIT
    /\ Val(pending).n.limit = AskedLimit
    /\ Val(pending).q.limit = AskedLimit + 1

LimitClampedWitness ==
  /\ Resolved /\ params.limit = Some(-1)
  /\ Val(pending).q.limit = 2
  /\ Len(Val(resp).results) = 1

\* The flags of the last response tell the truth about the collection.
FlagsSound ==
  /\ Val(resp).hasNext =>
       \E d \in Matching : \A i \in 1..Len(Ids) : ComesBefore(DocOf(Ids[i]), d)
  /\ Val(resp).hasPrevious =>
       \E d \in Matching : \A i \in 1..Len(Ids) : ComesBefore(d, DocOf(Ids[i]))
  /\ Kind = "first" =>
       /\ ~Val(resp).hasPrevious
       /\ Val(resp).hasNext <=> Cardinality(Matching) > AskedLimit

\* C3: hasNext only if a matching record lies after the last returned one,
\* hasPrevious only if one lies before the first returned one, in the order
\* the caller asked for; without cursor hasPrevious is false and hasNext
\* tells whether more than `limit` records match. Stated for every call
\* whose cursors came from an earlier response.
FlagsOnlyIfDataExists == Resolved => FlagsSound

\* C3 restricted to the calls that supply at most one cursor.
FlagsOnlyIfDataExistsOneCursor == (Resolved /\ Kind # "both") => FlagsSound

CursorValueOf(id) ==
  IF AskedField = "_id" THEN Single(id) ELSE Pair(DocOf(id)[AskedField], id)

\* C7: with a projection, every returned record holds exactly the fields
\* the caller's projection asks for (no _id when it says _id: 0, no
\* paginatedField unless requested), and the cursors are those of the first
\* and last record.
ProjectionHonoured ==
  (Resolved /\ IsSet(params.fields)) =>
    /\ \A i \in 1..Len(Ids) : Val(resp).results[i] = Project(DocOf(Ids[i]), params.fields)
    /\ Ids # <<>> =>
         /\ Val(resp).previous = Some(encode(CursorValueOf(Ids[1])))
         /\ Val(resp).next = Some(encode(CursorValueOf(Ids[Len(Ids)])))

\* C7 restricted to the projections that include at least one field.
ProjectionHonouredForInclusions ==
  (IsSet(params.fields) /\ \E f \in DOMAIN Val(params.fields) : Val(params.fields)[f] = 1)
    => ProjectionHonoured

\* C8: a call given a cursor that cannot be decoded throws and issues no
\* query to the store.
DecodeFailureIssuesNoQuery ==
  LET bad(c) == IsSet(c) /\ Val(c) = Garbage
  IN  (pc # "idle" /\ (bad(params.next) \/ bad(params.previous))) =>
        /\ pc = "threw"
        /\ finds = 0
        /\ pending = Undefined

DecodeFailureWitness ==
  /\ pc = "threw"
  /\ params.previous = Some(Garbage)
  /\ ~IsSet(params.next)

\* C9: `previous` and `next` encode the cursor value of the first and the
\* last returned record, the records being in the order the caller asked
\* for; both are undefined for an empty page and equal for a page of one.
CursorsAreFirstAndLast ==
  Resolved =>
    /\ \A i \in 1..(Len(Ids) - 1) : ComesBefore(DocOf(Ids[i]), DocOf(Ids[i + 1]))
    /\ IF Ids = <<>>
       THEN Val(resp).previous = Undefined /\ Val(resp).next = Undefined
       ELSE /\ Val(resp).previous = Some(encode(CursorValueOf(Ids[1])))
            /\ Val(resp).next = Some(encode(CursorValueOf(Ids[Len(Ids)])))
            /\ Len(Ids) = 1 => Val(resp).previous = Val(resp).next

CursorsWitness ==
  /\ Resolved /\ Kind = "previous"
  /\ AskedField = "date" /\ AskedAscending
  /\ Len(Ids) >= 2
  /\ DocOf(Ids[1])["date"] = DocOf(Ids[2])["date"]

NextCursorId ==
  LET c == decode(Val(params.next)) IN IF c.shape = "pair" THEN c.id ELSE c.v

ReusedParamsSamePage ==
  (Resolved /\ Kind = "reuse") =>
    /\ Ids = Val(pageN).ids
    /\ Val(last).results = Val(pageN).results

\* What does carry over to the second call: the same documents in the same
\* order, and the same cursors and flags. Only the keys of the returned
\* records change.
ReusedParamsSameDocuments ==
  (Resolved /\ Kind = "reuse") =>
    /\ Ids = Val(pageN).ids
    /\ Val(resp).hasNext = (Len(Ids) < Cardinality(Matching))
    /\ ~Val(resp).hasPrevious

\* With no projection the second call returns the same records.
ReusedParamsSamePageNoProjection ==
  (Resolved /\ Kind = "reuse" /\ ~IsSet(params.fields)) =>
    Val(last).results = Val(pageN).results
====
